---- MODULE Spec2Model ----
(***************************************************************************)
(* SCANCMDR: protocol synthesis for a galvanometer scan-control DSP.       *)
(*                                                                         *)
(* The model has two layers, as the library has:                           *)
(*   - the command builder: a doubly linked list of CmdLine nodes grown by *)
(*     the append functions and rendered by ProtToString;                  *)
(*   - the six pattern generators, each one call that computes its cycle   *)
(*     timings, issues its append calls in program order, renders the      *)
(*     protocol and clears it.                                             *)
(*                                                                         *)
(* uint32_t values are pairs <<hi, lo>> of 16-bit limbs (value =           *)
(* hi * 65536 + lo) so that the arithmetic is exactly arithmetic modulo    *)
(* 2^32.  int and int64_t values are integers; the inputs are kept small   *)
(* enough that no signed operation leaves its type's range.                *)
(***************************************************************************)
EXTENDS Integers, Sequences, FiniteSets, TLC

VARIABLES
    heap,       \* the CmdLine nodes allocated for the protocol under construction
    pFirst,     \* ScanProt.pFirst (a node index, NULL when the list is empty)
    pLast,      \* ScanProt.pLast
    ret,        \* the return value of the last append call
    lastOp,     \* the name of the last operation executed
    calls,      \* the append calls that returned 0, in call order
    text,       \* the string returned by ProtToString (a sequence of characters)
    call,       \* the arguments of the generator call
    pc,         \* where the modelled caller stands
    emitted,    \* the commands of the protocol a generator rendered, in list order
    loc         \* the generator's timing locals after the conversion to cycles

vars == <<heap, pFirst, pLast, ret, lastOp, calls, text, call, pc, emitted, loc>>

(***************************************************************************)
(* Program constants (scancmdr.h)                                          *)
(***************************************************************************)
CYCLES_PER_MS == 100
TRIG_LEN == 10
TIME_OFFSET == 10
PROT_PERIOD == 50
START == "S"
END == "E"
X == 4
Y == 3
TRIG == 7
LOOP == 9
TL_DL == 0
TH_DL == 2
TL_DH == 4
TH_DH == 6
RISING == 1
FALLING == 2
T_NONE == 0
T_IN == 1
T_OUT == 2

NULL == 0
\* the character '\0'
NUL == "\\0"

(***************************************************************************)
(* uint32_t arithmetic: <<hi, lo>>, 16-bit limbs                           *)
(***************************************************************************)
LIMB == 65536

\* conversion of a non-negative int (below 2^31) to uint32_t
ToU32(n) == <<n \div LIMB, n % LIMB>>

\* conversion of an int64_t to uint32_t (reduction modulo 2^32)
I64ToU32(v) ==
    IF v >= 0 THEN ToU32(v)
    ELSE <<(LIMB - 1) - ((-v - 1) \div LIMB), (LIMB - 1) - ((-v - 1) % LIMB)>>

U32Add(a, b) ==
    LET lo == a[2] + b[2]
    IN  <<(a[1] + b[1] + lo \div LIMB) % LIMB, lo % LIMB>>

\* the full 32-bit product of two 16-bit limbs, as <<hi, lo>>
MulLimb(x, y) ==
    LET xh == x \div 256
        xl == x % 256
        yh == y \div 256
        yl == y % 256
        mid == xh * yl + xl * yh
        low == (mid % 256) * 256 + xl * yl
    IN  <<xh * yh + mid \div 256 + low \div LIMB, low % LIMB>>

U32Mul(a, b) ==
    LET p == MulLimb(a[2], b[2])
    IN  <<(p[1] + MulLimb(a[1], b[2])[2] + MulLimb(a[2], b[1])[2]) % LIMB, p[2]>>

U32Lt(a, b) == a[1] < b[1] \/ (a[1] = b[1] /\ a[2] < b[2])
U32Le(a, b) == a = b \/ U32Lt(a, b)

(***************************************************************************)
(* C integer division (truncation toward zero)                             *)
(***************************************************************************)
CDiv(a, b) ==
    IF (a >= 0) = (b > 0) THEN (IF a >= 0 THEN a ELSE -a) \div (IF b > 0 THEN b ELSE -b)
    ELSE -((IF a >= 0 THEN a ELSE -a) \div (IF b > 0 THEN b ELSE -b))

(***************************************************************************)
(* printf conversions: %u of a uint32_t, %i / %lld of a signed integer     *)
(***************************************************************************)
Digit(d) ==
    CASE d = 0 -> "0" [] d = 1 -> "1" [] d = 2 -> "2" [] d = 3 -> "3" [] d = 4 -> "4"
      [] d = 5 -> "5" [] d = 6 -> "6" [] d = 7 -> "7" [] d = 8 -> "8" [] d = 9 -> "9"

RECURSIVE NatDec(_)
NatDec(n) == IF n < 10 THEN <<Digit(n)>> ELSE Append(NatDec(n \div 10), Digit(n % 10))

IntDec(v) == IF v < 0 THEN <<"-">> \o NatDec(-v) ELSE NatDec(v)

RECURSIVE U32Dec(_)
U32Dec(a) ==
    LET t == (a[1] % 10) * LIMB + a[2]
        q == <<a[1] \div 10, t \div 10>>
    IN  IF q = <<0, 0>> THEN <<Digit(t % 10)>> ELSE Append(U32Dec(q), Digit(t % 10))

\* sprintf(NextLine, FORMAT, DSPCmd, ScanCmd, Cycle, Channel, Value):
\* every byte written, a '\0' conversion included
FormatLine(c) ==
    <<c.DSPCmd, c.ScanCmd, ",">> \o U32Dec(c.Cycle) \o <<",">> \o IntDec(c.Channel)
        \o <<",">> \o IntDec(c.Value) \o <<"\n">>

\* a char buffer read as a C string: the bytes before the first '\0'
RECURSIVE CStr(_)
CStr(s) ==
    IF s = <<>> \/ Head(s) = NUL THEN <<>> ELSE <<Head(s)>> \o CStr(Tail(s))

strcat(dst, src) == dst \o CStr(src)

(***************************************************************************)
(* The protocol: ScanProt and its CmdLine nodes                            *)
(***************************************************************************)
\* calloc(1, sizeof(CmdLine)): every field zero
ZeroCmdLine ==
    [DSPCmd |-> NUL, ScanCmd |-> NUL, Cycle |-> <<0, 0>>, Channel |-> 0, Value |-> 0,
     pPrev |-> NULL, pNext |-> NULL]

\* createProtocol: calloc(1, sizeof(ScanProt))
createProtocol == [heap |-> <<>>, pFirst |-> NULL, pLast |-> NULL]

\* a mutation of reassignPointers: the new node always becomes the head
reassignPointersHead(P, pChildNode) ==
    [P EXCEPT !.pFirst = pChildNode, !.pLast = pChildNode]

reassignPointers(P, pChildNode) ==
    IF P.pFirst = NULL
    THEN [P EXCEPT !.pFirst = pChildNode, !.pLast = pChildNode]
    ELSE [P EXCEPT !.heap[P.pLast].pNext = pChildNode,
                   !.heap[pChildNode].pPrev = P.pLast,
                   !.pLast = pChildNode]

\* the shared body of the append functions: allocate a node, set its fields, link it
LinkNew(P, fields) ==
    LET id == Len(P.heap) + 1
        node == [ZeroCmdLine EXCEPT !.DSPCmd = fields.DSPCmd, !.ScanCmd = fields.ScanCmd,
                                    !.Cycle = fields.Cycle, !.Channel = fields.Channel,
                                    !.Value = fields.Value]
    IN  reassignPointers([P EXCEPT !.heap = Append(@, node)], id)

appendMove(P, channel, cycle, position) ==
    LinkNew(P, [DSPCmd |-> "A", ScanCmd |-> "V", Cycle |-> cycle, Channel |-> channel,
                Value |-> position])

appendLoop(P, StartOrEnd, cycle, repetitions) ==
    LinkNew(P, [DSPCmd |-> "A",
                ScanCmd |-> CASE StartOrEnd = "S" -> START
                              [] StartOrEnd = "E" -> END
                              [] OTHER -> NUL,
                Cycle |-> cycle, Channel |-> LOOP,
                Value |-> CASE StartOrEnd = "S" -> repetitions
                            [] StartOrEnd = "E" -> repetitions
                            [] OTHER -> 0])

appendTrigOut(P, cycle, trigger) ==
    LinkNew(P, [DSPCmd |-> "A", ScanCmd |-> "V", Cycle |-> cycle, Channel |-> TRIG,
                Value |-> trigger])

appendIncr(P, cycle, channel, increment) ==
    LinkNew(P, [DSPCmd |-> "A", ScanCmd |-> "I", Cycle |-> cycle, Channel |-> channel,
                Value |-> increment])

appendWait(P, waitTime) ==
    LinkNew(P, [DSPCmd |-> "A", ScanCmd |-> "0", Cycle |-> I64ToU32(waitTime),
                Channel |-> 0, Value |-> 0])

appendRel(P, cycle, channel, deltaValue) ==
    LinkNew(P, [DSPCmd |-> "A", ScanCmd |-> "R", Cycle |-> cycle, Channel |-> channel,
                Value |-> deltaValue])

appendOffset(P, cycle, channel, offsetValue) ==
    LinkNew(P, [DSPCmd |-> "A", ScanCmd |-> "O", Cycle |-> cycle, Channel |-> channel,
                Value |-> offsetValue])

\* a mutation of appendTrigIn: the command is put on the loop pseudo-channel
appendTrigInOnLoop(P, cycle, risingFalling) ==
    LinkNew(P, [DSPCmd |-> "A",
                ScanCmd |-> CASE risingFalling = 1 -> "U"
                              [] risingFalling = 2 -> "D"
                              [] OTHER -> "U",
                Cycle |-> cycle, Channel |-> LOOP, Value |-> 0])

appendTrigIn(P, cycle, risingFalling) ==
    LinkNew(P, [DSPCmd |-> "A",
                ScanCmd |-> CASE risingFalling = 1 -> "U"
                              [] risingFalling = 2 -> "D"
                              [] OTHER -> "U",
                Cycle |-> cycle, Channel |-> TRIG, Value |-> 0])

\* the nodes reached from p by following pNext, as commands (the five data fields)
CmdOf(n) ==
    [DSPCmd |-> n.DSPCmd, ScanCmd |-> n.ScanCmd, Cycle |-> n.Cycle, Channel |-> n.Channel,
     Value |-> n.Value]

RECURSIVE Walk(_, _)
Walk(h, p) == IF p = NULL THEN <<>> ELSE <<CmdOf(h[p])>> \o Walk(h, h[p].pNext)

CmdList(P) == Walk(P.heap, P.pFirst)

RECURSIVE CountFrom(_, _)
CountFrom(h, p) == IF p = NULL THEN 0 ELSE 1 + CountFrom(h, h[p].pNext)

NumCmds(P) == CountFrom(P.heap, P.pFirst)

\* ProtToString: "C\n", then strcat of every node's formatted line
RECURSIVE CatLines(_, _, _)
CatLines(str, h, p) ==
    IF p = NULL THEN str ELSE CatLines(strcat(str, FormatLine(h[p])), h, h[p].pNext)

ProtToString(P) == CatLines(<<"C", "\n">>, P.heap, P.pFirst)

\* clearProtocol: every node freed, pFirst = pLast = NULL
\* a mutation of clearProtocol: the nodes and the list pointers are left in place
clearProtocolKeepList(P) == P

clearProtocol(P) == [heap |-> <<>>, pFirst |-> NULL, pLast |-> NULL]

(***************************************************************************)
(* The builder on its own: a caller that creates a protocol, appends       *)
(* commands, renders the protocol once and clears it.  Every allocation    *)
(* may fail.                                                               *)
(***************************************************************************)
\* the most nodes the modelled caller allocates
MaxCmds == 3

\* the NULL char* and the empty call/locals records
NullStr == <<>>
NoCall == [gen |-> "none"]
NoLoc == [gen |-> "none"]

\* the protocol object the variables hold
Prot == [heap |-> heap, pFirst |-> pFirst, pLast |-> pLast]

\* an append call as the caller wrote it
Call(fn, des, cycle, ch, val) ==
    [fn |-> fn, des |-> des, cycle |-> cycle, ch |-> ch, val |-> val]

\* the append function named by a call record, applied to P
Exec(P, c) ==
    CASE c.fn = "appendMove" -> appendMove(P, c.ch, c.cycle, c.val)
      [] c.fn = "appendRel" -> appendRel(P, c.cycle, c.ch, c.val)
      [] c.fn = "appendLoop" -> appendLoop(P, c.des, c.cycle, c.val)
      [] c.fn = "appendTrigOut" -> appendTrigOut(P, c.cycle, c.val)
      [] c.fn = "appendTrigIn" -> appendTrigIn(P, c.cycle, c.val)
      [] c.fn = "appendIncr" -> appendIncr(P, c.cycle, c.ch, c.val)
      [] c.fn = "appendOffset" -> appendOffset(P, c.cycle, c.ch, c.val)
      [] c.fn = "appendWait" -> appendWait(P, c.val)

InitBuilder ==
    /\ heap = createProtocol.heap
    /\ pFirst = createProtocol.pFirst
    /\ pLast = createProtocol.pLast
    /\ ret = 0
    /\ lastOp = "createProtocol"
    /\ calls = <<>>
    /\ text = NullStr
    /\ call = NoCall
    /\ pc = "building"
    /\ emitted = <<>>
    /\ loc = NoLoc

\* one append call: calloc succeeds and the node is linked (return 0), or calloc
\* fails and the function returns -1 before touching the protocol
AppendStep(c) ==
    /\ pc = "building"
    /\ Len(heap) < MaxCmds
    /\ \/ /\ heap' = Exec(Prot, c).heap
          /\ pFirst' = Exec(Prot, c).pFirst
          /\ pLast' = Exec(Prot, c).pLast
          /\ ret' = 0
          /\ calls' = Append(calls, c)
       \/ /\ ret' = -1
          /\ UNCHANGED <<heap, pFirst, pLast, calls>>
    /\ lastOp' = c.fn
    /\ UNCHANGED <<text, call, pc, emitted, loc>>

CallAppendMove ==
    \E ch \in {X, Y} :
        AppendStep(Call("appendMove", "", ToU32(10), ch, IF ch = X THEN 5000 ELSE -1))

CallAppendRel ==
    \E cy \in {0, 10} : AppendStep(Call("appendRel", "", ToU32(cy), X, -1))

CallAppendLoop ==
    \E des \in {"S", "E", "X"} : AppendStep(Call("appendLoop", des, ToU32(10), 0, 2))

CallAppendTrigOut ==
    \E trig \in {TL_DH, TH_DL} :
        AppendStep(Call("appendTrigOut", "", ToU32(10), 0, trig))

CallAppendTrigIn ==
    \E edge \in {RISING, FALLING, 0} :
        AppendStep(Call("appendTrigIn", "", ToU32(10), 0, edge))

CallAppendIncr == AppendStep(Call("appendIncr", "", ToU32(10), Y, 7))

CallAppendOffset == AppendStep(Call("appendOffset", "", ToU32(10), X, 1))

CallAppendWait ==
    \E w \in {10, -1} : AppendStep(Call("appendWait", "", <<0, 0>>, 0, w))

\* ProtToString: the rendered string, or NULL when an allocation fails
CallProtToString ==
    /\ pc = "building"
    /\ \/ text' = ProtToString(Prot)
       \/ text' = NullStr
    /\ pc' = "rendered"
    /\ lastOp' = "ProtToString"
    /\ UNCHANGED <<heap, pFirst, pLast, ret, calls, call, emitted, loc>>

CallClearProtocol ==
    /\ pc = "rendered"
    /\ heap' = clearProtocol(Prot).heap
    /\ pFirst' = clearProtocol(Prot).pFirst
    /\ pLast' = clearProtocol(Prot).pLast
    /\ pc' = "cleared"
    /\ lastOp' = "clearProtocol"
    /\ UNCHANGED <<ret, calls, text, call, emitted, loc>>

NextBuilder ==
    \/ CallAppendMove
    \/ CallAppendRel
    \/ CallAppendLoop
    \/ CallAppendTrigOut
    \/ CallAppendTrigIn
    \/ CallAppendIncr
    \/ CallAppendOffset
    \/ CallAppendWait
    \/ CallProtToString
    \/ CallClearProtocol

SpecBuilder == InitBuilder /\ [][NextBuilder]_vars

(***************************************************************************)
(* Coordinate helpers.  RotAngle is modelled in quarter turns (0 is the    *)
(* angle 0, q stands for q * pi/2 radians): for these angles cos and sin   *)
(* are 1, 0 or -1 up to a double's rounding error, which round() and the   *)
(* integer truncation remove for the coordinates used here.                *)
(***************************************************************************)
Cos(q) == CASE q % 4 = 0 -> 1 [] q % 4 = 1 -> 0 [] q % 4 = 2 -> -1 [] OTHER -> 0
Sin(q) == CASE q % 4 = 0 -> 0 [] q % 4 = 1 -> 1 [] q % 4 = 2 -> 0 [] OTHER -> -1

Coord(x, y) == [X |-> x, Y |-> y]

\* a mutation of convertCoord: the center offset is not subtracted
convertCoordNoOffset(pixelCoord, ScaleFactor, CenterOffset, RotAngle) ==
    LET rotTransform == ScaleFactor * Cos(RotAngle)
    IN  [X |-> -1 * (rotTransform * pixelCoord.X),
         Y |-> -1 * (rotTransform * pixelCoord.Y)]

\* rotTransform is a real: the conversion of ScaleFactor * cexp(RotAngle*I) to
\* long double keeps the real part ScaleFactor * cos(RotAngle) only
convertCoord(pixelCoord, ScaleFactor, CenterOffset, RotAngle) ==
    LET rotTransform == ScaleFactor * Cos(RotAngle)
    IN  [X |-> -1 * (rotTransform * (pixelCoord.X - CenterOffset.X)),
         Y |-> -1 * (rotTransform * (pixelCoord.Y - CenterOffset.Y))]

rotateCoord(pixelCoord, axisCenter, RotAngle) ==
    LET XX == pixelCoord.X - axisCenter.X
        YY == pixelCoord.Y - axisCenter.Y
    IN  [X |-> XX * Cos(RotAngle) - YY * Sin(RotAngle),
         Y |-> XX * Sin(RotAngle) + YY * Cos(RotAngle)]

RECURSIVE SumX(_)
SumX(arr) == IF arr = <<>> THEN 0 ELSE Head(arr).X + SumX(Tail(arr))
RECURSIVE SumY(_)
SumY(arr) == IF arr = <<>> THEN 0 ELSE Head(arr).Y + SumY(Tail(arr))

\* integer division of the coordinate sums; NumPoints > 0
getCentroid(NumPoints, CoordArr) ==
    [X |-> CDiv(SumX(CoordArr), NumPoints), Y |-> CDiv(SumY(CoordArr), NumPoints)]

(***************************************************************************)
(* File readers.  A file is the sequence of the integers it holds, in      *)
(* order; every fscanf format of the library skips any white space between *)
(* integers, line ends included.  A conversion that finds no integer       *)
(* leaves its variable as it was.                                          *)
(***************************************************************************)
\* the loop of getCoords / getPattern: n records read from position pos on,
\* xcoord and ycoord holding what the last successful conversions stored
RECURSIVE ReadPairs(_, _, _, _, _)
ReadPairs(file, pos, n, xcoord, ycoord) ==
    IF n = 0 THEN <<>>
    ELSE LET x == IF pos <= Len(file) THEN file[pos] ELSE xcoord
             y == IF pos + 1 <= Len(file) THEN file[pos + 1] ELSE ycoord
         IN  <<Coord(x, y)>> \o ReadPairs(file, pos + 2, n - 1, x, y)

getCoords(CoordFile, NumPoints) == ReadPairs(CoordFile, 1, NumPoints, 0, 0)

\* fscanf(fp, "%d\n", &nPoints) consumes the first integer only; the records are
\* read from the second integer on
getPattern(PatternFile, NumPoints, StartPos, Spacing) ==
    LET read == ReadPairs(PatternFile, 2, NumPoints, 0, 0)
    IN  [i \in 1..NumPoints |->
            Coord(StartPos.X + (read[i].X - 1) * Spacing.X,
                  StartPos.Y - (read[i].Y - 1) * Spacing.Y)]

\* the first integer of the file, converted to uint16_t by the caller
getNumPoints(PatternFile) == PatternFile[1]

(***************************************************************************)
(* Pattern generators.  Each generator is modelled by its time conversion  *)
(* (XxxTiming), the append calls it issues in program order (XxxCalls) and *)
(* one action that runs them on a fresh protocol, renders it and clears    *)
(* it.                                                                     *)
(***************************************************************************)
MoveCall(channel, cycle, position) == Call("appendMove", "", cycle, channel, position)
RelCall(cycle, channel, delta) == Call("appendRel", "", cycle, channel, delta)
LoopCall(StartOrEnd, cycle, reps) == Call("appendLoop", StartOrEnd, cycle, 0, reps)
TrigOutCall(cycle, trigger) == Call("appendTrigOut", "", cycle, 0, trigger)
TrigInCall(cycle, edge) == Call("appendTrigIn", "", cycle, 0, edge)

RECURSIVE Run(_, _)
Run(P, script) == IF script = <<>> THEN P ELSE Run(Exec(P, Head(script)), Tail(script))

\* a mutation of TrigSwitch: the trigger-out level is dropped at cycle t, not
\* TRIG_LEN cycles later
TrigSwitchNoLen(Trig, t) ==
    CASE Trig = T_NONE -> <<>>
      [] Trig = T_IN -> <<TrigInCall(t, RISING)>>
      [] Trig = T_OUT -> <<TrigOutCall(t, TH_DL), TrigOutCall(t, TL_DL)>>
      [] OTHER -> <<>>

\* switch(*Trig) at cycle t
TrigSwitch(Trig, t) ==
    CASE Trig = T_NONE -> <<>>
      [] Trig = T_IN -> <<TrigInCall(t, RISING)>>
      [] Trig = T_OUT -> <<TrigOutCall(t, TH_DL),
                           TrigOutCall(U32Add(t, ToU32(TRIG_LEN)), TL_DL)>>
      [] OTHER -> <<>>

\* the two coercions and the conversion to cycles, as buildSpot writes them
SpotTiming(c) ==
    LET TimeOn == ToU32(c.TimeOn)
        ISI == IF U32Lt(ToU32(c.ISI), TimeOn) THEN TimeOn ELSE ToU32(c.ISI)
        train == U32Add(ToU32(c.Baseline), U32Mul(ToU32(c.NumPulses), ISI))
        EpisodePeriod == IF U32Lt(ToU32(c.EpisodePeriod), train) THEN train
                         ELSE ToU32(c.EpisodePeriod)
    IN  [Baseline |-> U32Mul(ToU32(c.Baseline), ToU32(CYCLES_PER_MS)),
         TimeOn |-> U32Mul(TimeOn, ToU32(CYCLES_PER_MS)),
         ISI |-> U32Mul(ISI, ToU32(CYCLES_PER_MS)),
         EpisodePeriod |-> U32Mul(EpisodePeriod, ToU32(CYCLES_PER_MS))]

\* as buildGrid, buildTarget and buildPattern write them: the episode period is
\* multiplied by Iterations
IterTiming(c) ==
    LET TimeOn == ToU32(c.TimeOn)
        ISI == IF U32Lt(ToU32(c.ISI), TimeOn) THEN TimeOn ELSE ToU32(c.ISI)
        train == U32Add(ToU32(c.Baseline), U32Mul(ToU32(c.NumPulses), ISI))
        EpisodePeriod == IF U32Lt(ToU32(c.EpisodePeriod), train) THEN train
                         ELSE ToU32(c.EpisodePeriod)
    IN  [Baseline |-> U32Mul(ToU32(c.Baseline), ToU32(CYCLES_PER_MS)),
         TimeOn |-> U32Mul(TimeOn, ToU32(CYCLES_PER_MS)),
         ISI |-> U32Mul(ISI, ToU32(CYCLES_PER_MS)),
         EpisodePeriod |-> U32Mul(U32Mul(EpisodePeriod, ToU32(CYCLES_PER_MS)),
                                  ToU32(c.Iterations))]

GridTiming(c) == IterTiming(c)
TargetTiming(c) == IterTiming(c)
\* a mutation of PatternTiming: the episode period is not multiplied by Iterations
PatternTimingSpot(c) == SpotTiming(c)

PatternTiming(c) == IterTiming(c)

\* as buildRapidGrid (n = Dims->X * Dims->Y) and buildRapidTarget (n = NumPoints)
\* write them: the episode holds the baseline and one ISI per point
RapidTiming(c, n) ==
    LET TimeOn == ToU32(c.TimeOn)
        ISI == IF U32Lt(ToU32(c.ISI), TimeOn) THEN TimeOn ELSE ToU32(c.ISI)
        train == U32Add(ToU32(c.Baseline), U32Mul(ToU32(n), ISI))
        EpisodePeriod == IF U32Lt(ToU32(c.EpisodePeriod), train) THEN train
                         ELSE ToU32(c.EpisodePeriod)
    IN  [Baseline |-> U32Mul(ToU32(c.Baseline), ToU32(CYCLES_PER_MS)),
         TimeOn |-> U32Mul(TimeOn, ToU32(CYCLES_PER_MS)),
         ISI |-> U32Mul(ISI, ToU32(CYCLES_PER_MS)),
         EpisodePeriod |-> U32Mul(EpisodePeriod, ToU32(CYCLES_PER_MS))]

RapidGridTiming(c) == RapidTiming(c, c.Dims.X * c.Dims.Y)
RapidTargetTiming(c) == RapidTiming(c, c.NumPoints)

Time0 == <<0, 0>>
EpisodeStart == U32Add(Time0, ToU32(TIME_OFFSET))

(* SINGLE SPOT *)
\* a mutation of SpotPulse: the single pulse is switched off one ISI, not one
\* pulse width, after it was switched on
SpotPulseOffAtISI(c, t) ==
    LET PulseStart == U32Add(Time0, t.Baseline)
    IN  IF c.NumPulses = 1
        THEN <<TrigOutCall(U32Add(Time0, t.Baseline), TL_DH),
               TrigOutCall(U32Add(U32Add(Time0, t.Baseline), t.ISI), TL_DL)>>
        ELSE <<LoopCall(START, PulseStart, c.NumPulses),
               TrigOutCall(PulseStart, TL_DH),
               TrigOutCall(U32Add(PulseStart, t.TimeOn), TL_DL),
               LoopCall(END, U32Add(PulseStart, t.ISI), c.NumPulses)>>

SpotPulse(c, t) ==
    LET PulseStart == U32Add(Time0, t.Baseline)
    IN  IF c.NumPulses = 1
        THEN <<TrigOutCall(U32Add(Time0, t.Baseline), TL_DH),
               TrigOutCall(U32Add(U32Add(Time0, t.Baseline), t.TimeOn), TL_DL)>>
        ELSE <<LoopCall(START, PulseStart, c.NumPulses),
               TrigOutCall(PulseStart, TL_DH),
               TrigOutCall(U32Add(PulseStart, t.TimeOn), TL_DL),
               LoopCall(END, U32Add(PulseStart, t.ISI), c.NumPulses)>>

buildSpotCalls(c) ==
    LET t == SpotTiming(c)
        EndTime == U32Add(U32Add(Time0, U32Mul(t.EpisodePeriod, ToU32(c.Reps))),
                          ToU32(PROT_PERIOD))
        galvoCoord == convertCoord(c.Pos, c.ScaleFactor, c.CenterOffset, 0)
    IN  <<MoveCall(X, Time0, galvoCoord.X),
          MoveCall(Y, Time0, galvoCoord.Y),
          LoopCall(START, Time0, c.Reps)>>
        \o TrigSwitch(c.Trig, Time0)
        \o SpotPulse(c, t)
        \o <<LoopCall(END, EndTime, c.Reps)>>

(* GRID *)
\* the pixel-space start position and the galvo-space steps of the raster
GridCoords(c) ==
    IF c.RotAngle = 0
    THEN [gStartPos |-> convertCoord(c.StartPos, c.ScaleFactor, c.CenterOffset, 0),
          gSpacing |-> Coord(c.Spacing.X * c.ScaleFactor, c.Spacing.Y * c.ScaleFactor),
          gDeltaX1 |-> 0, gDeltaX2 |-> 0, gDeltaY1 |-> 0, gDeltaY2 |-> 0]
    ELSE LET b1 == Coord(c.StartPos.X + c.Spacing.X * (c.Dims.X - 1), c.StartPos.Y)
             b2 == Coord(b1.X, c.StartPos.Y - c.Spacing.Y * (c.Dims.Y - 1))
             b3 == Coord(c.StartPos.X, b2.Y)
             gridCenter == getCentroid(4, <<c.StartPos, b1, b2, b3>>)
             rot == rotateCoord(c.StartPos, gridCenter, c.RotAngle)
             rStartPos == Coord(rot.X + gridCenter.X, rot.Y + gridCenter.Y)
         IN  [gStartPos |-> convertCoord(rStartPos, c.ScaleFactor, c.CenterOffset, 0),
              gSpacing |-> Coord(0, 0),
              gDeltaX1 |-> (c.Spacing.X * Cos(c.RotAngle)) * c.ScaleFactor,
              gDeltaX2 |-> (c.Spacing.Y * Sin(c.RotAngle)) * c.ScaleFactor,
              gDeltaY1 |-> (c.Spacing.X * Sin(c.RotAngle)) * c.ScaleFactor,
              gDeltaY2 |-> (c.Spacing.Y * Cos(c.RotAngle)) * c.ScaleFactor]

GridPulse(c, t) ==
    LET PulseStart == U32Add(EpisodeStart, t.Baseline)
    IN  IF c.NumPulses = 1
        THEN <<TrigOutCall(PulseStart, TL_DH),
               TrigOutCall(U32Add(PulseStart, t.TimeOn), TL_DL)>>
        ELSE <<LoopCall(START, PulseStart, c.NumPulses),
               TrigOutCall(PulseStart, TL_DH),
               TrigOutCall(U32Add(PulseStart, t.TimeOn), TL_DL),
               LoopCall(END, U32Add(PulseStart, t.ISI), c.NumPulses)>>

\* a mutation of GridRaster: the X loop is never closed
GridRasterNoXEnd(c, t, g) ==
    LET XMoveTime == U32Add(EpisodeStart, t.EpisodePeriod)
        YMoveTime == U32Add(EpisodeStart, U32Mul(ToU32(c.Dims.X), t.EpisodePeriod))
    IN  <<RelCall(XMoveTime, X, -1 * g.gSpacing.X),
          RelCall(YMoveTime, Y, g.gSpacing.Y),
          RelCall(YMoveTime, X, g.gSpacing.X * c.Dims.X),
          LoopCall(END, YMoveTime, c.Dims.Y)>>

\* a mutation of GridRaster: the X loop's End carries the repetition count of the
\* Y loop and the Y loop's End that of the X loop
GridRasterCrossed(c, t, g) ==
    LET XMoveTime == U32Add(EpisodeStart, t.EpisodePeriod)
        YMoveTime == U32Add(EpisodeStart, U32Mul(ToU32(c.Dims.X), t.EpisodePeriod))
    IN  <<RelCall(XMoveTime, X, -1 * g.gSpacing.X),
          LoopCall(END, XMoveTime, c.Dims.Y),
          RelCall(YMoveTime, Y, g.gSpacing.Y),
          RelCall(YMoveTime, X, g.gSpacing.X * c.Dims.X),
          LoopCall(END, YMoveTime, c.Dims.X)>>

\* the relative moves that walk the raster, and the ends of the X and Y loops
GridRaster(c, t, g) ==
    LET XMoveTime == U32Add(EpisodeStart, t.EpisodePeriod)
        YMoveTime == U32Add(EpisodeStart, U32Mul(ToU32(c.Dims.X), t.EpisodePeriod))
    IN  IF c.RotAngle = 0
        THEN <<RelCall(XMoveTime, X, -1 * g.gSpacing.X),
               LoopCall(END, XMoveTime, c.Dims.X),
               RelCall(YMoveTime, Y, g.gSpacing.Y),
               RelCall(YMoveTime, X, g.gSpacing.X * c.Dims.X),
               LoopCall(END, YMoveTime, c.Dims.Y)>>
        ELSE <<RelCall(XMoveTime, X, -1 * g.gDeltaX1),
               RelCall(XMoveTime, Y, -1 * g.gDeltaX2),
               LoopCall(END, XMoveTime, c.Dims.X),
               RelCall(YMoveTime, X, -1 * g.gDeltaY1),
               RelCall(YMoveTime, Y, g.gDeltaY2),
               RelCall(YMoveTime, X, g.gDeltaX1 * c.Dims.X),
               RelCall(YMoveTime, Y, g.gDeltaX2 * c.Dims.X),
               LoopCall(END, YMoveTime, c.Dims.Y)>>

buildGridCalls(c) ==
    LET t == GridTiming(c)
        g == GridCoords(c)
        EndTime == U32Add(U32Add(EpisodeStart,
                                 U32Mul(ToU32(c.Dims.X * c.Dims.Y), t.EpisodePeriod)),
                          ToU32(PROT_PERIOD))
    IN  <<LoopCall(START, Time0, c.Reps),
          MoveCall(X, Time0, g.gStartPos.X),
          MoveCall(Y, Time0, g.gStartPos.Y),
          LoopCall(START, EpisodeStart, c.Dims.Y),
          LoopCall(START, EpisodeStart, c.Dims.X)>>
        \o (IF c.Iterations > 1 THEN <<LoopCall(START, EpisodeStart, c.Iterations)>>
            ELSE <<>>)
        \o TrigSwitch(c.Trig, EpisodeStart)
        \o GridPulse(c, t)
        \o (IF c.Iterations > 1
            THEN <<LoopCall(END, U32Add(EpisodeStart, t.EpisodePeriod), c.Iterations)>>
            ELSE <<>>)
        \o GridRaster(c, t, g)
        \o <<LoopCall(END, EndTime, c.Reps)>>

(* TARGET *)
\* the pixel points after the optional rotation about their centroid, converted
\* to galvo coordinates
TargetCoords(pCoordArr, c) ==
    LET centroid == getCentroid(c.NumPoints, pCoordArr)
        rotated == IF c.RotAngle # 0
                   THEN [i \in 1..Len(pCoordArr) |->
                            rotateCoord(pCoordArr[i], centroid, c.RotAngle)]
                   ELSE pCoordArr
    IN  [j \in 1..Len(pCoordArr) |->
            convertCoord(rotated[j], c.ScaleFactor, c.CenterOffset, 0)]

\* the body of buildTarget's loop over the coordinates, k = 0 .. NumPoints-1
TargetEpisode(c, t, gCoordArr, k) ==
    LET NextEpisode == U32Add(EpisodeStart, U32Mul(ToU32(k), t.EpisodePeriod))
        NextPulse == U32Add(NextEpisode, t.Baseline)
    IN  <<MoveCall(X, NextEpisode, gCoordArr[k + 1].X),
          MoveCall(Y, NextEpisode, gCoordArr[k + 1].Y)>>
        \o (IF c.Iterations > 1 THEN <<LoopCall(START, NextEpisode, c.Iterations)>>
            ELSE <<>>)
        \o TrigSwitch(c.Trig, NextEpisode)
        \o (IF c.NumPulses = 1
            THEN <<TrigOutCall(NextPulse, TL_DH),
                   TrigOutCall(U32Add(NextPulse, t.TimeOn), TL_DL)>>
            ELSE <<LoopCall(START, NextPulse, c.NumPulses),
                   TrigOutCall(NextPulse, TL_DH),
                   TrigOutCall(U32Add(NextPulse, t.TimeOn), TL_DL),
                   LoopCall(END, U32Add(NextPulse, U32Mul(ToU32(c.NumPulses), t.ISI)),
                            c.NumPulses)>>)
        \o (IF c.Iterations > 1
            THEN <<LoopCall(END, U32Add(NextEpisode, t.EpisodePeriod), c.Iterations)>>
            ELSE <<>>)

RECURSIVE TargetLoop(_, _, _, _, _)
TargetLoop(c, t, gCoordArr, k, NumPoints) ==
    IF k >= NumPoints THEN <<>>
    ELSE TargetEpisode(c, t, gCoordArr, k) \o TargetLoop(c, t, gCoordArr, k + 1, NumPoints)

buildTargetCalls(c) ==
    LET t == TargetTiming(c)
        EndTime == U32Mul(t.EpisodePeriod, ToU32(c.NumPoints))
        gCoordArr == TargetCoords(getCoords(c.file, c.NumPoints), c)
    IN  <<LoopCall(START, Time0, c.Reps)>>
        \o TargetLoop(c, t, gCoordArr, 0, c.NumPoints)
        \o <<LoopCall(END, EndTime, c.Reps)>>

(* RAPID GRID *)
buildRapidGridCalls(c) ==
    LET t == RapidGridTiming(c)
        PulseStart == U32Add(EpisodeStart, t.Baseline)
        XMoveTime == U32Add(EpisodeStart, t.ISI)
        YMoveTime == U32Add(EpisodeStart, U32Mul(ToU32(c.Dims.X), t.ISI))
        EndTime == U32Add(U32Add(EpisodeStart, t.EpisodePeriod), ToU32(PROT_PERIOD))
        gStartPos == convertCoord(c.StartPos, c.ScaleFactor, c.CenterOffset, 0)
        gSpacing == Coord(-1 * c.Spacing.X * c.ScaleFactor, -1 * c.Spacing.Y * c.ScaleFactor)
    IN  <<LoopCall(START, Time0, c.Reps),
          MoveCall(X, Time0, gStartPos.X),
          MoveCall(Y, Time0, gStartPos.Y)>>
        \o TrigSwitch(c.Trig, EpisodeStart)
        \o <<LoopCall(START, EpisodeStart, c.Dims.Y),
             LoopCall(START, EpisodeStart, c.Dims.X),
             TrigOutCall(PulseStart, TL_DH),
             TrigOutCall(U32Add(PulseStart, t.TimeOn), TL_DL),
             RelCall(XMoveTime, X, -1 * gSpacing.X),
             LoopCall(END, XMoveTime, c.Dims.X),
             RelCall(YMoveTime, Y, gSpacing.Y),
             RelCall(YMoveTime, X, gSpacing.X * c.Dims.X),
             LoopCall(END, YMoveTime, c.Dims.Y),
             LoopCall(END, EndTime, c.Reps)>>

(* RAPID TARGET *)
\* a mutation of RapidTargetLoop: the trigger switch is repeated at every target
RECURSIVE RapidTargetLoopTrig(_, _, _, _, _)
RapidTargetLoopTrig(c, t, gCoordArr, m, NumPoints) ==
    IF m >= NumPoints THEN <<>>
    ELSE LET PulseStart == U32Add(EpisodeStart, t.Baseline)
             NextPulse == U32Add(PulseStart, U32Mul(ToU32(m), t.ISI))
         IN  <<MoveCall(X, NextPulse, gCoordArr[m + 1].X),
               MoveCall(Y, NextPulse, gCoordArr[m + 1].Y)>>
             \o TrigSwitch(c.Trig, NextPulse)
             \o <<TrigOutCall(NextPulse, TL_DH),
                  TrigOutCall(U32Add(NextPulse, t.TimeOn), TL_DL)>>
             \o RapidTargetLoopTrig(c, t, gCoordArr, m + 1, NumPoints)

RECURSIVE RapidTargetLoop(_, _, _, _, _)
RapidTargetLoop(c, t, gCoordArr, m, NumPoints) ==
    IF m >= NumPoints THEN <<>>
    ELSE LET PulseStart == U32Add(EpisodeStart, t.Baseline)
             NextPulse == U32Add(PulseStart, U32Mul(ToU32(m), t.ISI))
         IN  <<MoveCall(X, NextPulse, gCoordArr[m + 1].X),
               MoveCall(Y, NextPulse, gCoordArr[m + 1].Y),
               TrigOutCall(NextPulse, TL_DH),
               TrigOutCall(U32Add(NextPulse, t.TimeOn), TL_DL)>>
             \o RapidTargetLoop(c, t, gCoordArr, m + 1, NumPoints)

buildRapidTargetCalls(c) ==
    LET t == RapidTargetTiming(c)
        EndTime == t.EpisodePeriod
        gCoordArr == TargetCoords(getCoords(c.file, c.NumPoints), c)
    IN  <<LoopCall(START, Time0, c.Reps)>>
        \o TrigSwitch(c.Trig, EpisodeStart)
        \o RapidTargetLoop(c, t, gCoordArr, 0, c.NumPoints)
        \o <<LoopCall(END, EndTime, c.Reps)>>

(* PATTERN *)
\* the body of buildPattern's loop over the coordinates, k = 0 .. NumPoints-1
PatternEpisode(c, t, gCoordArr, k) ==
    LET NextEpisode == U32Add(EpisodeStart, U32Mul(ToU32(k), t.EpisodePeriod))
        NextPulse == U32Add(NextEpisode, t.Baseline)
    IN  <<MoveCall(X, NextEpisode, gCoordArr[k + 1].X),
          MoveCall(Y, NextEpisode, gCoordArr[k + 1].Y)>>
        \o (IF c.Iterations > 1 THEN <<LoopCall(START, NextEpisode, c.Iterations)>>
            ELSE <<>>)
        \o TrigSwitch(c.Trig, NextEpisode)
        \o (IF c.NumPulses = 1
            THEN <<TrigOutCall(NextPulse, TL_DH),
                   TrigOutCall(U32Add(NextPulse, t.TimeOn), TL_DL)>>
            ELSE <<LoopCall(START, NextPulse, c.NumPulses),
                   TrigOutCall(NextPulse, TL_DH),
                   TrigOutCall(U32Add(NextPulse, t.TimeOn), TL_DL),
                   LoopCall(END, U32Add(NextPulse, U32Mul(ToU32(c.NumPulses), t.ISI)),
                            c.NumPulses)>>)
        \o (IF c.Iterations > 1
            THEN <<LoopCall(END, U32Add(NextEpisode, t.EpisodePeriod), c.Iterations)>>
            ELSE <<>>)

RECURSIVE PatternLoop(_, _, _, _, _)
PatternLoop(c, t, gCoordArr, k, NumPoints) ==
    IF k >= NumPoints THEN <<>>
    ELSE PatternEpisode(c, t, gCoordArr, k)
             \o PatternLoop(c, t, gCoordArr, k + 1, NumPoints)

\* NumPoints = (uint16_t)getNumPoints(PatternFile)
PatternNumPoints(c) == getNumPoints(c.file) % 65536

buildPatternCalls(c) ==
    LET NumPoints == PatternNumPoints(c)
        t == PatternTiming(c)
        EndTime == U32Mul(t.EpisodePeriod, ToU32(NumPoints))
        gCoordArr == TargetCoords(getPattern(c.file, NumPoints, c.StartPos, c.Spacing),
                                  [c EXCEPT !.NumPoints = NumPoints])
    IN  <<LoopCall(START, Time0, c.Reps)>>
        \o PatternLoop(c, t, gCoordArr, 0, NumPoints)
        \o <<LoopCall(END, EndTime, c.Reps)>>

(***************************************************************************)
(* The generator calls checked: every combination of the values below.     *)
(* Times are milliseconds; 42949672 is the largest number of milliseconds  *)
(* whose cycle count fits in a uint32_t.                                   *)
(***************************************************************************)
MaxPulses == 2
MaxIter == 2
MaxDim == 2
MaxPoints == 2

BaselineVals == {0, 1}
TimeOnVals == {1, 42949672}
ISIVals == {0, 2, 42949673}
EpisodeVals == {0, 9}
RepsVals == {1, 3}
TrigVals == {T_NONE, T_IN, T_OUT}
RotVals == {0, 1}
DimVals == 0..MaxDim
CoordFiles == {<<5, 7, 2, -3>>, <<4, 4>>}

\* a pattern file: the header line (pointCount, xDims, yDims) and pointCount
\* records of 1-based grid indices
RECURSIVE PatternRecords(_)
PatternRecords(n) ==
    IF n = 0 THEN <<>>
    ELSE PatternRecords(n - 1) \o <<((n - 1) % 3) + 1, (((n - 1) \div 3) % 2) + 1>>
PatternFiles == {<<n, 3, 2>> \o PatternRecords(n) : n \in 0..MaxPoints}

TimeArgs ==
    [Baseline : BaselineVals, TimeOn : TimeOnVals, ISI : ISIVals,
     EpisodePeriod : EpisodeVals, Reps : RepsVals, Trig : TrigVals]

GenCall(gen, a, NumPulses, Iterations, Dims, RotAngle, NumPoints, file) ==
    [gen |-> gen, Baseline |-> a.Baseline, TimeOn |-> a.TimeOn, NumPulses |-> NumPulses,
     ISI |-> a.ISI, Iterations |-> Iterations, EpisodePeriod |-> a.EpisodePeriod,
     Reps |-> a.Reps, Trig |-> a.Trig, Pos |-> Coord(3, -2), Dims |-> Dims,
     StartPos |-> Coord(4, 6), Spacing |-> Coord(2, 3), ScaleFactor |-> 2,
     CenterOffset |-> Coord(1, 1), RotAngle |-> RotAngle, NumPoints |-> NumPoints,
     file |-> file]

\* the calls the specification starts from: one call of one generator
GenCalls(c) ==
    \E a \in TimeArgs :
        \/ \E np \in 0..MaxPulses :
              c = GenCall("buildSpot", a, np, 1, Coord(0, 0), 0, 0, <<>>)
        \/ \E x \in (0..MaxPulses) \X (0..MaxIter) \X DimVals \X DimVals \X RotVals :
              c = GenCall("buildGrid", a, x[1], x[2], Coord(x[3], x[4]), x[5], 0, <<>>)
        \/ \E x \in (0..MaxPulses) \X (0..MaxIter) \X RotVals \X (0..MaxPoints)
                      \X CoordFiles :
              c = GenCall("buildTarget", a, x[1], x[2], Coord(0, 0), x[3], x[4], x[5])
        \/ \E x \in DimVals \X DimVals \X RotVals :
              c = GenCall("buildRapidGrid", a, 1, 1, Coord(x[1], x[2]), x[3], 0, <<>>)
        \/ \E x \in RotVals \X (0..MaxPoints) \X CoordFiles :
              c = GenCall("buildRapidTarget", a, 1, 1, Coord(0, 0), x[1], x[2], x[3])
        \/ \E x \in (0..MaxPulses) \X (0..MaxIter) \X RotVals \X PatternFiles :
              c = GenCall("buildPattern", a, x[1], x[2], Coord(0, 0), x[3], 0, x[4])

Init ==
    /\ heap = <<>>
    /\ pFirst = NULL
    /\ pLast = NULL
    /\ ret = 0
    /\ lastOp = "none"
    /\ calls = <<>>
    /\ text = NullStr
    /\ GenCalls(call)
    /\ pc = "start"
    /\ emitted = <<>>
    /\ loc = NoLoc

\* the end of a generator call: the append calls that were linked built the
\* protocol P, r is what the last failing append returned (0 when none failed),
\* and ProtToString renders P, or returns NULL when its own allocation fails
Finish(gen, script, t, r, rendered) ==
    LET P == Run(createProtocol, script)
    IN  /\ pc = "start"
        /\ call.gen = gen
        /\ emitted' = CmdList(P)
        /\ text' = IF rendered THEN ProtToString(P) ELSE NullStr
        /\ heap' = clearProtocol(P).heap
        /\ pFirst' = clearProtocol(P).pFirst
        /\ pLast' = clearProtocol(P).pLast
        /\ calls' = script
        /\ ret' = r
        /\ loc' = t
        /\ lastOp' = gen
        /\ pc' = "returned"
        /\ UNCHANGED call

\* one generator call from createProtocol to return: the append calls run on a
\* fresh protocol, ProtToString renders it, clearProtocol empties it
Build(gen, script, t) == Finish(gen, script, t, 0, TRUE)

\* getCentroid(0, ...) divides by zero: the call traps where the division traps
Trap(gen, NumPoints) ==
    /\ pc = "start"
    /\ call.gen = gen
    /\ call.RotAngle # 0
    /\ NumPoints = 0
    /\ pc' = "crashed"
    /\ lastOp' = gen
    /\ UNCHANGED <<heap, pFirst, pLast, ret, calls, text, call, emitted, loc>>

buildSpot == Build("buildSpot", buildSpotCalls(call), SpotTiming(call))

buildGrid == Build("buildGrid", buildGridCalls(call), GridTiming(call))

buildTarget ==
    \/ Build("buildTarget", buildTargetCalls(call), TargetTiming(call))
    \/ Trap("buildTarget", call.NumPoints)

buildRapidGrid ==
    Build("buildRapidGrid", buildRapidGridCalls(call), RapidGridTiming(call))

buildRapidTarget ==
    \/ Build("buildRapidTarget", buildRapidTargetCalls(call), RapidTargetTiming(call))
    \/ Trap("buildRapidTarget", call.NumPoints)

buildPattern ==
    \/ Build("buildPattern", buildPatternCalls(call), PatternTiming(call))
    \/ Trap("buildPattern", PatternNumPoints(call))

Next ==
    \/ buildSpot
    \/ buildGrid
    \/ buildTarget
    \/ buildRapidGrid
    \/ buildRapidTarget
    \/ buildPattern

Spec == Init /\ [][Next]_vars

(***************************************************************************)
(* Properties of the builder and the serializer                            *)
(***************************************************************************)
\* the lines of a text: the characters between line ends, a trailing unterminated
\* rest counted as a line of its own
RECURSIVE SplitLines(_, _)
SplitLines(s, cur) ==
    IF s = <<>> THEN (IF cur = <<>> THEN <<>> ELSE <<cur>>)
    ELSE IF Head(s) = "\n" THEN <<cur>> \o SplitLines(Tail(s), <<>>)
    ELSE SplitLines(Tail(s), Append(cur, Head(s)))

\* the line the wire grammar prescribes for a command:
\* <controlChar><scanChar>,<cycle>,<channel>,<value>
WireLine(c) ==
    <<c.DSPCmd, c.ScanCmd, ",">> \o U32Dec(c.Cycle) \o <<",">> \o IntDec(c.Channel)
        \o <<",">> \o IntDec(c.Value)

Rendered == lastOp = "ProtToString" /\ text # NullStr

\* C9: after N successful appends ProtToString returns exactly N+1 newline-terminated
\* lines: "C", then for each appended command, in append order, its wire line; there
\* is no "X" execute line.
C9_RenderLines ==
    Rendered =>
        /\ text[Len(text)] = "\n"
        /\ Len(SplitLines(text, <<>>)) = Len(calls) + 1
        /\ SplitLines(text, <<>>)[1] = <<"C">>
        /\ \A i \in 1..Len(calls) :
              /\ i + 1 <= Len(SplitLines(text, <<>>))
              /\ SplitLines(text, <<>>)[i + 1] = WireLine(CmdList(Prot)[i])
        /\ \A i \in 1..Len(SplitLines(text, <<>>)) : SplitLines(text, <<>>)[i] # <<"X">>

\* the round-trip example of C9: one move at channel 4, cycle 10, value 5000
C9_Example ==
    (Rendered /\ calls = <<Call("appendMove", "", ToU32(10), X, 5000)>>) =>
        text = <<"C", "\n", "A", "V", ",", "1", "0", ",", "4", ",", "5", "0", "0", "0", "\n">>

\* C10: a successful append adds exactly one command, puts it last and leaves the
\* commands before it as they were; an append whose allocation fails returns -1
\* and leaves the protocol as it was.
C10_AppendFrame ==
    [][(pc = "building" /\ pc' = "building") =>
          \/ /\ ret' = 0
             /\ NumCmds(Prot') = NumCmds(Prot) + 1
             /\ Len(CmdList(Prot')) = Len(CmdList(Prot)) + 1
             /\ SubSeq(CmdList(Prot'), 1, Len(CmdList(Prot))) = CmdList(Prot)
             /\ CmdList(Prot')[Len(CmdList(Prot'))] = CmdOf(heap'[Len(heap')])
             /\ CmdList(Prot')[Len(CmdList(Prot'))].DSPCmd = "A"
             /\ CmdList(Prot')[Len(CmdList(Prot'))].Cycle =
                    (IF lastOp' = "appendWait" THEN I64ToU32(calls'[Len(calls')].val)
                     ELSE calls'[Len(calls')].cycle)
             /\ pLast' = Len(heap')
          \/ /\ ret' = -1
             /\ Prot' = Prot
    ]_vars

\* C10's case: two appends succeeded and a third one failed
C10_Witness == pc = "building" /\ Len(calls) >= 2 /\ ret = -1 /\ NumCmds(Prot) = Len(calls)

(***************************************************************************)
(* Properties of the pattern generators                                    *)
(***************************************************************************)
Returned == pc = "returned"

IsStart(c) == c.ScanCmd = "S"
IsEnd(c) == c.ScanCmd = "E"
IsPulseOn(c) == c.ScanCmd = "V" /\ c.Channel = TRIG /\ c.Value = TL_DH
IsPulseOff(c) == c.ScanCmd = "V" /\ c.Channel = TRIG /\ c.Value = TL_DL
IsTrigBearing(c) == c.ScanCmd \in {"U", "D"} \/ c.Channel = TRIG

Starts == SelectSeq(emitted, IsStart)
Ends == SelectSeq(emitted, IsEnd)

\* C1: the command sequence every generator emits holds as many loop Start ('S')
\* commands as loop End ('E') commands, whatever the trigger mode, NumPulses,
\* Iterations, Reps, grid dimensions and point count.
C1_LoopsBalanced == Returned => Len(Starts) = Len(Ends)

\* C1's case: a grid with an iteration loop and a pulse-train loop, five loops deep
C1_Witness ==
    Returned /\ call.gen = "buildGrid" /\ call.Iterations > 1 /\ call.NumPulses = 2
        /\ Len(Starts) = 5 /\ Len(Ends) = 5

\* the scan of a command sequence with a stack of the repetition values of the open
\* loops: every 'E' finds the stack non-empty with its own value on top
RECURSIVE NestedFrom(_, _)
NestedFrom(cmds, stack) ==
    IF cmds = <<>> THEN stack = <<>>
    ELSE IF IsStart(Head(cmds)) THEN NestedFrom(Tail(cmds), <<Head(cmds).Value>> \o stack)
    ELSE IF IsEnd(Head(cmds))
         THEN /\ stack # <<>>
              /\ Head(stack) = Head(cmds).Value
              /\ NestedFrom(Tail(cmds), Tail(stack))
    ELSE NestedFrom(Tail(cmds), stack)

\* C2: in every generator's sequence the loop commands are properly nested in
\* append order: no 'E' on an empty stack, the stack empty at the end, and each
\* 'E' carries the repetition value of the 'S' it closes.
C2_LoopsNested == Returned => NestedFrom(emitted, <<>>)

\* C2's case: a grid whose X, Y, iteration, pulse and master loops all carry
\* different repetition values
C2_Witness ==
    Returned /\ call.gen = "buildGrid" /\ call.Iterations > 1 /\ call.NumPulses = 0
        /\ call.Dims.X = 1 /\ call.Dims.Y = 2 /\ call.Reps = 3 /\ Len(Starts) = 5

\* C3: a pulse-train loop (NumPulses # 1, in buildSpot, buildGrid, buildTarget and
\* buildPattern) ends NumPulses x ISI cycles after it starts.
C3_PulseTrainLaw ==
    (/\ Returned
     /\ call.gen \in {"buildSpot", "buildGrid", "buildTarget", "buildPattern"}
     /\ call.NumPulses # 1) =>
        \A i \in 1..Len(emitted) :
            (IsStart(emitted[i]) /\ i + 3 <= Len(emitted) /\ IsPulseOn(emitted[i + 1])) =>
                /\ IsEnd(emitted[i + 3])
                /\ emitted[i + 3].Cycle =
                       U32Add(emitted[i].Cycle, U32Mul(ToU32(call.NumPulses), loc.ISI))

\* C4: in buildGrid and buildRapidGrid the X loop ends Dims.X steps after it starts
\* and the Y loop Dims.Y rows after it starts, a row being Dims.X steps; a step is
\* the episode period in buildGrid and the ISI in buildRapidGrid.
C4_RasterLoopLaw ==
    (Returned /\ call.gen \in {"buildGrid", "buildRapidGrid"}) =>
        LET step == IF call.gen = "buildGrid" THEN loc.EpisodePeriod ELSE loc.ISI
            row == U32Mul(ToU32(call.Dims.X), step)
            YStart == Starts[2]
            XStart == Starts[3]
            XEnd == Ends[Len(Ends) - 2]
            YEnd == Ends[Len(Ends) - 1]
        IN  /\ XEnd.Cycle = U32Add(XStart.Cycle, row)
            /\ YEnd.Cycle = U32Add(YStart.Cycle, U32Mul(ToU32(call.Dims.Y), row))

\* C5: no generator schedules a trigger-bearing command (a trigger-in, or an output
\* level on channel 7) before cycle TIME_OFFSET.
C5_NoTriggerAtZero ==
    Returned =>
        \A i \in 1..Len(emitted) :
            IsTrigBearing(emitted[i]) => U32Le(ToU32(TIME_OFFSET), emitted[i].Cycle)

\* the cycle count of a number of milliseconds, in uint32_t arithmetic
Cycles(ms) == U32Mul(ms, ToU32(CYCLES_PER_MS))

\* C6 as stated: buildSpot with NumPulses = 1 emits exactly six commands: loop
\* Start, move X, move Y, pulse-on, pulse-off, loop End, the pulse switched on at
\* Baseline x 100 and off at (Baseline + TimeOn) x 100.
C6_SpotSingleAsStated ==
    (Returned /\ call.gen = "buildSpot" /\ call.NumPulses = 1) =>
        /\ Len(emitted) = 6
        /\ IsStart(emitted[1])
        /\ emitted[2].ScanCmd = "V" /\ emitted[2].Channel = X
        /\ emitted[3].ScanCmd = "V" /\ emitted[3].Channel = Y
        /\ IsPulseOn(emitted[4])
        /\ emitted[4].Cycle = Cycles(ToU32(call.Baseline))
        /\ IsPulseOff(emitted[5])
        /\ emitted[5].Cycle = Cycles(U32Add(ToU32(call.Baseline), ToU32(call.TimeOn)))
        /\ IsEnd(emitted[6])

\* the commands a trigger mode puts between the loop Start and the pulse
TrigCount(Trig) == CASE Trig = T_IN -> 1 [] Trig = T_OUT -> 2 [] OTHER -> 0

\* C6, amended: buildSpot with NumPulses = 1 emits, in this order, move X
\* (channel 4), move Y (channel 3), the outer loop Start, the trigger commands of
\* the trigger mode (none for None, so six commands in all; one trigger-in; two
\* trigger-out levels), pulse-on, pulse-off and the outer loop End; the pulse is
\* switched on at Baseline x 100 and off at (Baseline + TimeOn) x 100, modulo 2^32.
C6_SpotSingle ==
    (Returned /\ call.gen = "buildSpot" /\ call.NumPulses = 1) =>
        LET n == Len(emitted)
        IN  /\ n = 6 + TrigCount(call.Trig)
            /\ emitted[1].ScanCmd = "V" /\ emitted[1].Channel = X
            /\ emitted[2].ScanCmd = "V" /\ emitted[2].Channel = Y
            /\ IsStart(emitted[3])
            /\ call.Trig = T_IN => emitted[4].ScanCmd = "U"
            /\ call.Trig = T_OUT =>
                  /\ emitted[4].ScanCmd = "V" /\ emitted[4].Channel = TRIG
                  /\ emitted[4].Value = TH_DL
                  /\ emitted[5].ScanCmd = "V" /\ emitted[5].Channel = TRIG
                  /\ emitted[5].Value = TL_DL
            /\ IsPulseOn(emitted[n - 2])
            /\ emitted[n - 2].Cycle = Cycles(ToU32(call.Baseline))
            /\ IsPulseOff(emitted[n - 1])
            /\ emitted[n - 1].Cycle =
                   Cycles(U32Add(ToU32(call.Baseline), ToU32(call.TimeOn)))
            /\ IsEnd(emitted[n])
            /\ \A i \in 1..n : IsStart(emitted[i]) => i = 3
            /\ \A i \in 1..n : IsEnd(emitted[i]) => i = n

\* C6's case: a single pulse without trigger, six commands, the ISI longer than
\* the pulse
C6_Witness ==
    Returned /\ call.gen = "buildSpot" /\ call.NumPulses = 1 /\ call.Trig = T_NONE
        /\ Len(emitted) = 6 /\ call.Baseline = 1 /\ call.ISI > call.TimeOn

\* C7: the ISI in cycles a generator uses is at least the pulse width in cycles it
\* uses, for every uint32_t ISI and TimeOn.
C7_ISICoversPulse == Returned => U32Le(loc.TimeOn, loc.ISI)

\* C8: the episode period in cycles used by buildSpot, buildGrid, buildTarget and
\* buildPattern is at least the cycles of the baseline and the pulse train
\* (Baseline + NumPulses x ISI), Iterations = 0 and wrapping products included.
C8_EpisodeCoversTrain ==
    (/\ Returned
     /\ call.gen \in {"buildSpot", "buildGrid", "buildTarget", "buildPattern"}) =>
        U32Le(U32Add(loc.Baseline, U32Mul(ToU32(call.NumPulses), loc.ISI)),
              loc.EpisodePeriod)

(***************************************************************************)
(* Allocation failure inside a generator.  No generator tests what         *)
(* createProtocol or an append function returns: an append whose calloc    *)
(* fails returns -1 and the generator goes on with the next call.          *)
(***************************************************************************)
\* the append calls a generator issues for the call c, in program order
FullScript(c) ==
    CASE c.gen = "buildSpot" -> buildSpotCalls(c)
      [] c.gen = "buildGrid" -> buildGridCalls(c)
      [] c.gen = "buildTarget" -> buildTargetCalls(c)
      [] c.gen = "buildRapidGrid" -> buildRapidGridCalls(c)
      [] c.gen = "buildRapidTarget" -> buildRapidTargetCalls(c)
      [] OTHER -> buildPatternCalls(c)

\* the timing locals of the generator of the call c
TimingOf(c) ==
    CASE c.gen = "buildSpot" -> SpotTiming(c)
      [] c.gen = "buildGrid" -> GridTiming(c)
      [] c.gen = "buildTarget" -> TargetTiming(c)
      [] c.gen = "buildRapidGrid" -> RapidGridTiming(c)
      [] c.gen = "buildRapidTarget" -> RapidTargetTiming(c)
      [] OTHER -> PatternTiming(c)

\* the script without its k-th call
RemoveAt(s, k) == SubSeq(s, 1, k - 1) \o SubSeq(s, k + 1, Len(s))

\* the calls the allocation specification starts from: regular time arguments,
\* every trigger mode, no rotation, at least one point
AllocCalls(c) ==
    \E tr \in TrigVals, np \in 1..MaxPulses, it \in 1..MaxIter, n \in 1..MaxPoints :
        LET a == [Baseline |-> 1, TimeOn |-> 1, ISI |-> 2, EpisodePeriod |-> 9,
                  Reps |-> 3, Trig |-> tr]
        IN  \/ c = GenCall("buildSpot", a, np, 1, Coord(0, 0), 0, 0, <<>>)
            \/ c = GenCall("buildGrid", a, np, it, Coord(2, 1), 0, 0, <<>>)
            \/ c = GenCall("buildTarget", a, np, it, Coord(0, 0), 0, n,
                           <<5, 7, 2, -3, 1, 1, 0, 4>>)
            \/ c = GenCall("buildRapidGrid", a, 1, 1, Coord(2, 1), 0, 0, <<>>)
            \/ c = GenCall("buildRapidTarget", a, 1, 1, Coord(0, 0), 0, n,
                           <<5, 7, 2, -3, 1, 1, 0, 4>>)
            \/ c = GenCall("buildPattern", a, np, it, Coord(0, 0), 0, 0,
                           <<n, 3, 2>> \o PatternRecords(n))

InitAlloc ==
    /\ heap = <<>>
    /\ pFirst = NULL
    /\ pLast = NULL
    /\ ret = 0
    /\ lastOp = "none"
    /\ calls = <<>>
    /\ text = NullStr
    /\ AllocCalls(call)
    /\ pc = "start"
    /\ emitted = <<>>
    /\ loc = NoLoc

\* every allocation succeeds
AllocOK == Build(call.gen, FullScript(call), TimingOf(call))

\* the calloc of the k-th append call fails: the call returns -1, which the
\* generator drops, and the other calls build the protocol that is rendered
AppendFails ==
    \E k \in 1..Len(FullScript(call)) :
        Finish(call.gen, RemoveAt(FullScript(call), k), TimingOf(call), -1, TRUE)

\* an allocation of ProtToString fails: it returns NULL, which the generator
\* returns after clearProtocol
RenderFails == Finish(call.gen, FullScript(call), TimingOf(call), 0, FALSE)

\* the calloc of createProtocol fails: it returns NULL, and the first append
\* call passes it to reassignPointers, which reads pParentList->pFirst
CreateFails ==
    /\ pc = "start"
    /\ pc' = "crashed"
    /\ lastOp' = "createProtocol"
    /\ UNCHANGED <<heap, pFirst, pLast, ret, calls, text, call, emitted, loc>>

NextAlloc ==
    \/ AllocOK
    \/ AppendFails
    \/ RenderFails
    \/ CreateFails

SpecAlloc == InitAlloc /\ [][NextAlloc]_vars

\* C11: a generator call in which an allocation failed does not return a
\* rendered protocol string that lacks commands: whatever string it returns is
\* the rendering of all the commands of the call.
C11_AllocFailureFatal ==
    (pc = "returned" /\ text # NullStr) =>
        text = ProtToString(Run(createProtocol, FullScript(call)))

(***************************************************************************)
(* Properties of the file-driven generators                                *)
(***************************************************************************)
\* the number of complete records a coordinate file holds
CoordRecords(file) == Len(file) \div 2

\* the number of complete records a pattern file holds after its header line
PatternRecordCount(file) == IF Len(file) < 3 THEN 0 ELSE (Len(file) - 3) \div 2

\* C12: buildTarget, buildRapidTarget and buildPattern never return a protocol
\* when the resource holds fewer records than the points they use: a call that
\* returns found every one of its points in the resource.
C12_AllPointsRead ==
    (Returned /\ call.gen \in {"buildTarget", "buildRapidTarget", "buildPattern"}) =>
        IF call.gen = "buildPattern"
        THEN PatternNumPoints(call) <= PatternRecordCount(call.file)
        ELSE call.NumPoints <= CoordRecords(call.file)

(***************************************************************************)
(* Properties of the commands the generators emit                          *)
(***************************************************************************)
\* the fields of the command c agree with its scan char
FieldsAgree(c) ==
    /\ c.DSPCmd = "A"
    /\ c.Channel \in 0..9
    /\ CASE c.ScanCmd \in {START, END} -> c.Channel = LOOP
         [] c.ScanCmd \in {"U", "D"} -> c.Channel = TRIG
         [] c.ScanCmd = "V" ->
                \/ c.Channel \in {X, Y}
                \/ c.Channel = TRIG /\ c.Value \in {TL_DL, TH_DL, TL_DH, TH_DH}
         [] c.ScanCmd = "R" -> c.Channel \in {X, Y}
         [] OTHER -> TRUE

\* C13: every command a generator emits has control char 'A' and a channel in
\* 0..9 that fits its scan char: 9 for 'S' and 'E', 7 for 'U', 'D' and the
\* output levels 0, 2, 4, 6, and 3 or 4 for every other 'V' and every 'R'.
C13_FieldsConsistent ==
    Returned => \A i \in 1..Len(emitted) : FieldsAgree(emitted[i])

\* C13's case: a raster with a trigger-in, relative moves, output levels and loops
C13_Witness ==
    /\ Returned
    /\ call.gen = "buildGrid"
    /\ call.Trig = T_IN
    /\ \E i \in 1..Len(emitted) : emitted[i].ScanCmd = "U" /\ emitted[i].Channel = TRIG
    /\ \E i \in 1..Len(emitted) : emitted[i].ScanCmd = "R" /\ emitted[i].Channel = Y
    /\ \E i \in 1..Len(emitted) : IsPulseOn(emitted[i])
    /\ Len(Starts) >= 3

(***************************************************************************)
(* calcScaling.  The calibration file is the sequence of its records       *)
(* (galvoX, galvoY, pixelX, pixelY), exactly NumPoints of them.  A double  *)
(* is modelled in fixed point, as a whole number of 1/FIX: the ratios,     *)
(* sums and halves the function computes are exact in both for the         *)
(* calibration points used here (pixel distances divide 100).  Inf stands  *)
(* for the double +infinity that a division by a pixel distance of 0       *)
(* gives.                                                                  *)
(***************************************************************************)
FIX == 409600
Inf == -1

Abs(x) == IF x < 0 THEN -x ELSE x

CalPoint(gX, gY, pX, pY) == [gX |-> gX, gY |-> gY, pX |-> pX, pY |-> pY]

\* fabs(dg) / fabs(dp)
Ratio(dg, dp) == IF dp = 0 THEN Inf ELSE (Abs(dg) * FIX) \div Abs(dp)

\* the entries the pair (i, j) appends to scaleArr
PairEntries(a, b) ==
    (IF a.gX # b.gX THEN <<Ratio(a.gX - b.gX, a.pX - b.pX)>> ELSE <<>>)
    \o (IF a.gY # b.gY THEN <<Ratio(a.gY - b.gY, a.pY - b.pY)>> ELSE <<>>)

\* the loops over i and j = i+1 .. NumPoints-1 (1-based here)
RECURSIVE PairLoop(_, _, _)
PairLoop(pts, i, j) ==
    IF i > Len(pts) THEN <<>>
    ELSE IF j > Len(pts) THEN PairLoop(pts, i + 1, i + 2)
    ELSE PairEntries(pts[i], pts[j]) \o PairLoop(pts, i, j + 1)

\* a mutation of ScaleAvg: the sum is not halved
ScaleAvgSum(sf, x) == IF sf = Inf \/ x = Inf THEN Inf ELSE sf + x

\* scalefactor = (scalefactor + scaleArr[k]) / 2
ScaleAvg(sf, x) == IF sf = Inf \/ x = Inf THEN Inf ELSE (sf + x) \div 2

\* the loop over k = 1 .. Nmax-1; the entries calloc left at 0 are skipped
RECURSIVE RunningAvg(_, _, _)
RunningAvg(sf, scaleArr, k) ==
    IF k > Len(scaleArr) THEN sf
    ELSE RunningAvg(IF scaleArr[k] # 0 THEN ScaleAvg(sf, scaleArr[k]) ELSE sf,
                    scaleArr, k + 1)

\* the double scalefactor before the conversion to int64_t
ScaleFactorOf(pts) ==
    LET scaleArr == PairLoop(pts, 1, 2)
    IN  IF scaleArr = <<>> THEN 0 ELSE RunningAvg(scaleArr[1], scaleArr, 2)

\* round() of a non-negative double, halves away from zero
Round(v) == (v + FIX \div 2) \div FIX

\* what calcScaling can return: the rounded scale factor, or, for the conversion
\* of +infinity to int64_t (undefined), what the conversion instruction gives:
\* the smallest int64_t on x86, the largest where the conversion saturates
calcScaling(NumPoints, pts) ==
    LET sf == ScaleFactorOf(SubSeq(pts, 1, NumPoints))
    IN  IF sf = Inf
        THEN {[of |-> "LLONG_MIN", val |-> 0], [of |-> "LLONG_MAX", val |-> 0]}
        ELSE {[of |-> "value", val |-> Round(sf)]}

(***************************************************************************)
(* The helper functions called on their own: one call of convertCoord,     *)
(* rotateCoord, getCentroid or calcScaling per behaviour, its arguments    *)
(* in call and its result in loc.                                          *)
(***************************************************************************)
MaxPix == 2
MaxCal == 3

PixVals == (0 - MaxPix)..MaxPix
Pixels == [X : PixVals, Y : PixVals]
Centers == {Coord(0, 0), Coord(1, -1), Coord(-2, 2)}
ScaleVals == {1, 2, 3}
AngleVals == 0..3
CentroidPoints == [X : PixVals, Y : {-1, 2}]
CalPoints ==
    {CalPoint(0, 0, 0, 0), CalPoint(100, 0, 50, 0), CalPoint(0, 100, 0, 50),
     CalPoint(100, 100, 100, 100), CalPoint(50, 0, 0, 0), CalPoint(0, 25, 0, 100)}

\* the sequences of 1 .. n elements of S
SeqsUpTo(S, n) == UNION {[1..k -> S] : k \in 1..n}

HelperCalls(c) ==
    \/ \E p \in Pixels, o \in Centers, s \in ScaleVals, q \in AngleVals :
          c = [gen |-> "convertCoord", pixelCoord |-> p, ScaleFactor |-> s,
               CenterOffset |-> o, RotAngle |-> q]
    \/ \E p \in Pixels, o \in Centers, q \in AngleVals :
          c = [gen |-> "rotateCoord", pixelCoord |-> p, axisCenter |-> o,
               RotAngle |-> q]
    \/ \E arr \in SeqsUpTo(CentroidPoints, MaxPoints) :
          c = [gen |-> "getCentroid", NumPoints |-> Len(arr), CoordArr |-> arr]
    \/ \E pts \in SeqsUpTo(CalPoints, MaxCal) :
          /\ Len(pts) >= 2
          /\ c = [gen |-> "calcScaling", NumPoints |-> Len(pts), points |-> pts]

InitHelpers ==
    /\ heap = <<>>
    /\ pFirst = NULL
    /\ pLast = NULL
    /\ ret = 0
    /\ lastOp = "none"
    /\ calls = <<>>
    /\ text = NullStr
    /\ HelperCalls(call)
    /\ pc = "start"
    /\ emitted = <<>>
    /\ loc = NoLoc

\* the return of a helper: its result is kept in loc
HelperReturn(fn, result) ==
    /\ pc = "start"
    /\ call.gen = fn
    /\ loc' = [gen |-> fn, result |-> result]
    /\ lastOp' = fn
    /\ pc' = "returned"
    /\ UNCHANGED <<heap, pFirst, pLast, ret, calls, text, call, emitted>>

CallConvertCoord ==
    /\ call.gen = "convertCoord"
    /\ HelperReturn("convertCoord",
                    convertCoord(call.pixelCoord, call.ScaleFactor, call.CenterOffset,
                                 call.RotAngle))

CallRotateCoord ==
    /\ call.gen = "rotateCoord"
    /\ HelperReturn("rotateCoord",
                    rotateCoord(call.pixelCoord, call.axisCenter, call.RotAngle))

CallGetCentroid ==
    /\ call.gen = "getCentroid"
    /\ HelperReturn("getCentroid", getCentroid(call.NumPoints, call.CoordArr))

CallCalcScaling ==
    /\ call.gen = "calcScaling"
    /\ \E r \in calcScaling(call.NumPoints, call.points) :
          HelperReturn("calcScaling", r)

NextHelpers ==
    \/ CallConvertCoord
    \/ CallRotateCoord
    \/ CallGetCentroid
    \/ CallCalcScaling

SpecHelpers == InitHelpers /\ [][NextHelpers]_vars

(***************************************************************************)
(* Properties of the helper functions                                      *)
(***************************************************************************)
HelperDone(fn) == pc = "returned" /\ lastOp = fn

\* C14: for the angle 0, convertCoord(p, s, c, 0) is exactly
\* (-(p.X - c.X) * s, -(p.Y - c.Y) * s).
C14_ConvertAtZero ==
    (HelperDone("convertCoord") /\ call.RotAngle = 0) =>
        loc.result =
            Coord((0 - (call.pixelCoord.X - call.CenterOffset.X)) * call.ScaleFactor,
                  (0 - (call.pixelCoord.Y - call.CenterOffset.Y)) * call.ScaleFactor)

\* C14's case: a point off the center offset on both axes, scaled by 3
C14_Witness ==
    /\ HelperDone("convertCoord")
    /\ call.RotAngle = 0
    /\ call.ScaleFactor = 3
    /\ call.pixelCoord = Coord(2, -2)
    /\ call.CenterOffset = Coord(1, -1)
    /\ loc.result = Coord(-3, 3)

\* C15: for every angle t, convertCoord rotates (dx, dy) = pixel - centerOffset,
\* scales and negates: X = -scale*(dx*cos t - dy*sin t) and
\* Y = -scale*(dx*sin t + dy*cos t); a quarter turn gives (scale*dy, -scale*dx).
C15_ConvertRotates ==
    HelperDone("convertCoord") =>
        LET dx == call.pixelCoord.X - call.CenterOffset.X
            dy == call.pixelCoord.Y - call.CenterOffset.Y
            s == call.ScaleFactor
            q == call.RotAngle
        IN  loc.result = Coord(0 - s * (dx * Cos(q) - dy * Sin(q)),
                               0 - s * (dx * Sin(q) + dy * Cos(q)))

\* the pairs (galvo distance, pixel distance) of the calibration points, one for
\* every pair of points and axis on which the two points differ
AxisPairs(pts) ==
    {<<Abs(pts[i].gX - pts[j].gX), Abs(pts[i].pX - pts[j].pX)>> :
        i \in 1..Len(pts), j \in 1..Len(pts)}
    \cup {<<Abs(pts[i].gY - pts[j].gY), Abs(pts[i].pY - pts[j].pY)>> :
        i \in 1..Len(pts), j \in 1..Len(pts)}

Differing(pts) == {d \in AxisPairs(pts) : d # <<0, 0>>}

\* every pair has the same, finite, galvo-to-pixel ratio where it differs
UniformRatio(pts) ==
    /\ Differing(pts) # {}
    /\ \A d \in Differing(pts) : d[2] # 0
    /\ \A d, e \in Differing(pts) : d[1] * e[2] = e[1] * d[2]

\* C16 as stated: with one ratio r for all pairs, calcScaling returns exactly r.
C16_ScalingExactAsStated ==
    (HelperDone("calcScaling") /\ UniformRatio(call.points)) =>
        /\ loc.result.of = "value"
        /\ \A d \in Differing(call.points) : loc.result.val * d[2] = d[1]

\* a / b rounded to the nearest integer, halves away from zero (b > 0)
RoundDiv(a, b) ==
    IF a >= 0 THEN (2 * a + b) \div (2 * b) ELSE 0 - ((2 * (0 - a) + b) \div (2 * b))

\* C16, amended: with one ratio r for all pairs, calcScaling returns r rounded to
\* the nearest integer (halves away from zero), that is r itself when r is an
\* integer; for the points (0,0,0,0), (100,0,50,0), (0,100,0,50) it returns 2.
C16_ScalingRounded ==
    (HelperDone("calcScaling") /\ UniformRatio(call.points)) =>
        /\ loc.result.of = "value"
        /\ \A d \in Differing(call.points) : loc.result.val = RoundDiv(d[1], d[2])

\* C16's case: the three calibration points of the example, scale factor 2
C16_Witness ==
    /\ HelperDone("calcScaling")
    /\ call.points = <<CalPoint(0, 0, 0, 0), CalPoint(100, 0, 50, 0),
                       CalPoint(0, 100, 0, 50)>>
    /\ UniformRatio(call.points)
    /\ loc.result = [of |-> "value", val |-> 2]

\* the calibration points are degenerate: they share a pixel X or a pixel Y, or
\* two of them differ in galvo position but not in pixel position on an axis
Degenerate(pts) ==
    \/ \A i, j \in 1..Len(pts) : pts[i].pX = pts[j].pX
    \/ \A i, j \in 1..Len(pts) : pts[i].pY = pts[j].pY
    \/ \E d \in AxisPairs(pts) : d[1] # 0 /\ d[2] = 0

\* C17: a value calcScaling returns is a positive scale factor, and it returns
\* none for degenerate calibration points.
C17_ScalingPositive ==
    HelperDone("calcScaling") =>
        /\ loc.result.of = "value"
        /\ loc.result.val > 0
        /\ ~Degenerate(call.points)

\* C18: getCentroid returns, on each axis, the mean of the coordinates rounded to
\* the nearest integer (X coordinates 1 and 2 give 2).
C18_CentroidRounded ==
    HelperDone("getCentroid") =>
        loc.result = Coord(RoundDiv(SumX(call.CoordArr), call.NumPoints),
                           RoundDiv(SumY(call.CoordArr), call.NumPoints))

\* C19: the axis center is a fixed point of rotateCoord:
\* rotateCoord(c, c, angle) = c for every angle.
C19_CenterFixed ==
    (HelperDone("rotateCoord") /\ call.pixelCoord = call.axisCenter) =>
        loc.result = call.axisCenter

(***************************************************************************)
(* The points of buildPattern                                              *)
(***************************************************************************)
\* C20: buildPattern uses exactly pointCount points, and its k-th point is
\* (StartPos.X + (gridX_k - 1) * Spacing.X, StartPos.Y + (gridY_k - 1) * Spacing.Y)
\* for the k-th record (gridX_k, gridY_k) after the header of the pattern
\* resource: without rotation, the k-th X and Y moves of the protocol are at
\* the galvo coordinate of that point.
C20_PatternPoints ==
    (Returned /\ call.gen = "buildPattern" /\ call.RotAngle = 0) =>
        LET pointCount == call.file[1]
            IsMoveX(c) == c.fn = "appendMove" /\ c.ch = X
            IsMoveY(c) == c.fn = "appendMove" /\ c.ch = Y
            xs == SelectSeq(calls, IsMoveX)
            ys == SelectSeq(calls, IsMoveY)
            Point(k) == Coord(call.StartPos.X
                                + (call.file[2 * k + 2] - 1) * call.Spacing.X,
                              call.StartPos.Y
                                + (call.file[2 * k + 3] - 1) * call.Spacing.Y)
            Galvo(k) == convertCoord(Point(k), call.ScaleFactor, call.CenterOffset, 0)
        IN  /\ Len(xs) = pointCount
            /\ Len(ys) = pointCount
            /\ \A k \in 1..pointCount :
                  xs[k].val = Galvo(k).X /\ ys[k].val = Galvo(k).Y

(***************************************************************************)
(* Order and padding of the emitted commands                               *)
(***************************************************************************)
\* C21: in every generator's protocol, for each channel, the cycles of the
\* commands on that channel are non-decreasing in append order, for every
\* parameter combination (Baseline = 0 with trigger-out and Iterations > 1
\* included).
C21_ChannelCyclesAscend ==
    Returned =>
        \A i, j \in 1..Len(emitted) :
            (i < j /\ emitted[i].Channel = emitted[j].Channel) =>
                U32Le(emitted[i].Cycle, emitted[j].Cycle)

\* C22: in every generator's protocol the master loop End is the last command,
\* and its cycle is at least PROT_PERIOD cycles later than the cycle of every
\* other command of the protocol.
C22_EndPadded ==
    Returned =>
        LET n == Len(emitted)
            padded(i) == U32Add(emitted[i].Cycle, ToU32(PROT_PERIOD))
        IN  /\ n > 0
            /\ IsEnd(emitted[n])
            /\ emitted[n].Value = call.Reps
            /\ \A i \in 1..(n - 1) :
                  /\ U32Le(emitted[i].Cycle, padded(i))
                  /\ U32Le(padded(i), emitted[n].Cycle)

(***************************************************************************)
(* A generator call step by step: the calls it makes on its protocol       *)
(* object, in the order of its code.  Every generator calls                *)
(* createProtocol, then its append calls, then ProtToString, then          *)
(* clearProtocol, and returns the string.  loc.ops records the calls made. *)
(***************************************************************************)
InitLife ==
    /\ heap = <<>>
    /\ pFirst = NULL
    /\ pLast = NULL
    /\ ret = 0
    /\ lastOp = "none"
    /\ calls = <<>>
    /\ text = NullStr
    /\ AllocCalls(call)
    /\ pc = "start"
    /\ emitted = <<>>
    /\ loc = [gen |-> call.gen, ops |-> <<>>]

\* ScanProt* p = createProtocol()
LifeCreate ==
    /\ pc = "start"
    /\ heap' = createProtocol.heap
    /\ pFirst' = createProtocol.pFirst
    /\ pLast' = createProtocol.pLast
    /\ loc' = [loc EXCEPT !.ops = Append(@, "createProtocol")]
    /\ lastOp' = "createProtocol"
    /\ pc' = "building"
    /\ UNCHANGED <<ret, calls, text, call, emitted>>

\* the next append call of the generator's code
LifeAppend ==
    /\ pc = "building"
    /\ Len(calls) < Len(FullScript(call))
    /\ LET c == FullScript(call)[Len(calls) + 1]
       IN  /\ heap' = Exec(Prot, c).heap
           /\ pFirst' = Exec(Prot, c).pFirst
           /\ pLast' = Exec(Prot, c).pLast
           /\ calls' = Append(calls, c)
           /\ loc' = [loc EXCEPT !.ops = Append(@, c.fn)]
           /\ lastOp' = c.fn
    /\ ret' = 0
    /\ UNCHANGED <<text, call, pc, emitted>>

\* char* protocolString = ProtToString(p), after the last append call
LifeRender ==
    /\ pc = "building"
    /\ Len(calls) = Len(FullScript(call))
    /\ text' = ProtToString(Prot)
    /\ emitted' = CmdList(Prot)
    /\ loc' = [loc EXCEPT !.ops = Append(@, "ProtToString")]
    /\ lastOp' = "ProtToString"
    /\ pc' = "rendered"
    /\ UNCHANGED <<heap, pFirst, pLast, ret, calls, call>>

\* clearProtocol(p)
LifeClear ==
    /\ pc = "rendered"
    /\ heap' = clearProtocol(Prot).heap
    /\ pFirst' = clearProtocol(Prot).pFirst
    /\ pLast' = clearProtocol(Prot).pLast
    /\ loc' = [loc EXCEPT !.ops = Append(@, "clearProtocol")]
    /\ lastOp' = "clearProtocol"
    /\ pc' = "cleared"
    /\ UNCHANGED <<ret, calls, text, call, emitted>>

\* return protocolString
LifeReturn ==
    /\ pc = "cleared"
    /\ lastOp' = call.gen
    /\ pc' = "returned"
    /\ UNCHANGED <<heap, pFirst, pLast, ret, calls, text, call, emitted, loc>>

NextLife ==
    \/ LifeCreate
    \/ LifeAppend
    \/ LifeRender
    \/ LifeClear
    \/ LifeReturn

SpecLife == InitLife /\ [][NextLife]_vars

\* C23: within a generator call the protocol is created empty, then only
\* appended to, then rendered exactly once, then cleared: no append follows
\* ProtToString, a call that returned has called ProtToString exactly once, and
\* after clearProtocol the protocol holds no command (pFirst = pLast = NULL).
C23_Lifecycle ==
    LET ops == loc.ops
        IsAppend(op) == op \notin {"createProtocol", "ProtToString", "clearProtocol"}
        IsRender(op) == op = "ProtToString"
    IN  /\ \A i \in 1..Len(ops) : (ops[i] = "createProtocol") <=> (i = 1)
        /\ Len(ops) = 1 => NumCmds(Prot) = 0 /\ pFirst = NULL /\ pLast = NULL
        /\ pc = "building" => NumCmds(Prot) = Len(SelectSeq(ops, IsAppend))
        /\ \A i, j \in 1..Len(ops) :
              (i < j /\ ops[i] = "ProtToString") => ops[j] = "clearProtocol"
        /\ \A i \in 1..Len(ops) :
              ops[i] = "clearProtocol" => (i = Len(ops) /\ ops[i - 1] = "ProtToString")
        /\ pc \in {"cleared", "returned"} =>
              /\ Len(SelectSeq(ops, IsRender)) = 1
              /\ ops[Len(ops)] = "clearProtocol"
              /\ pFirst = NULL
              /\ pLast = NULL
              /\ NumCmds(Prot) = 0

\* C23's case: a buildRapidTarget call over two targets has returned, after its
\* appends, one rendering and the clearing
C23_Witness ==
    /\ pc = "returned"
    /\ call.gen = "buildRapidTarget"
    /\ call.NumPoints = 2
    /\ Len(emitted) > 5
    /\ Len(loc.ops) = Len(emitted) + 3
    /\ text # NullStr
    /\ pFirst = NULL

(***************************************************************************)
(* Two concurrent calls of convertCoord.  The function computes into       *)
(* 'static gCoord galvoCoord', one object shared by every call: each call  *)
(* stores galvoCoord.X, stores galvoCoord.Y and returns a copy of the      *)
(* object, which it loads field by field.  The threads take these steps in *)
(* any order; loc.galvoCoord is the static object, loc.thr[i] the position *)
(* and the returned value of thread i, call.args[i] its arguments.         *)
(***************************************************************************)
Threads == {1, 2}

ThreadCalls(c) ==
    \E p1 \in Pixels, p2 \in Centers, s \in ScaleVals :
        c = [gen |-> "convertCoord",
             args |-> <<[pixelCoord |-> p1, ScaleFactor |-> s,
                         CenterOffset |-> Coord(0, 0), RotAngle |-> 0],
                        [pixelCoord |-> p2, ScaleFactor |-> s,
                         CenterOffset |-> Coord(1, -1), RotAngle |-> 0]>>]

InitThreads ==
    /\ heap = <<>>
    /\ pFirst = NULL
    /\ pLast = NULL
    /\ ret = 0
    /\ lastOp = "none"
    /\ calls = <<>>
    /\ text = NullStr
    /\ ThreadCalls(call)
    /\ pc = "running"
    /\ emitted = <<>>
    /\ loc = [gen |-> "convertCoord",
              galvoCoord |-> Coord(0, 0),
              thr |-> [i \in Threads |-> [at |-> "entry", ret |-> Coord(0, 0)]]]

\* what the call of thread i computes from its own arguments
Computed(i) ==
    convertCoord(call.args[i].pixelCoord, call.args[i].ScaleFactor,
                 call.args[i].CenterOffset, call.args[i].RotAngle)

\* one step of thread i: from position 'from' to position 'to', leaving the
\* static object as g and the thread's return value as r
ThreadStep(i, from, to, g, r) ==
    /\ pc = "running"
    /\ loc.thr[i].at = from
    /\ loc' = [loc EXCEPT !.galvoCoord = g, !.thr[i] = [at |-> to, ret |-> r]]
    /\ lastOp' = to
    /\ pc' = IF to = "done" /\ \A j \in Threads \ {i} : loc.thr[j].at = "done"
             THEN "returned" ELSE "running"
    /\ UNCHANGED <<heap, pFirst, pLast, ret, calls, text, call, emitted>>

\* galvoCoord.X = (int64_t)(-1*creal(cCoord))
StoreX(i) ==
    ThreadStep(i, "entry", "storedX",
               [loc.galvoCoord EXCEPT !.X = Computed(i).X], loc.thr[i].ret)

\* galvoCoord.Y = (int64_t)(-1*cimag(cCoord))
StoreY(i) ==
    ThreadStep(i, "storedX", "storedY",
               [loc.galvoCoord EXCEPT !.Y = Computed(i).Y], loc.thr[i].ret)

\* return galvoCoord: the load of the field X into the return value
LoadX(i) ==
    ThreadStep(i, "storedY", "loadedX", loc.galvoCoord,
               [loc.thr[i].ret EXCEPT !.X = loc.galvoCoord.X])

\* return galvoCoord: the load of the field Y, and the return
LoadY(i) ==
    ThreadStep(i, "loadedX", "done", loc.galvoCoord,
               [loc.thr[i].ret EXCEPT !.Y = loc.galvoCoord.Y])

NextThreads ==
    \E i \in Threads :
        \/ StoreX(i)
        \/ StoreY(i)
        \/ LoadX(i)
        \/ LoadY(i)

SpecThreads == InitThreads /\ [][NextThreads]_vars

\* C24: two convertCoord calls running concurrently on separate inputs each
\* return exactly the result they return when run alone, in any interleaving.
C24_ConcurrentAsAlone ==
    \A i \in Threads : loc.thr[i].at = "done" => loc.thr[i].ret = Computed(i)

(***************************************************************************)
(* buildPattern against buildTarget                                        *)
(***************************************************************************)
\* C25: buildPattern and buildTarget emit identical command sequences when
\* they are given the same timing parameters, trigger mode, scale factor,
\* center offset and rotation angle and the same resulting list of pixel
\* points: the commands of a buildPattern call are those of the buildTarget
\* call whose coordinate resource holds the points buildPattern computed.
C25_PatternAsTarget ==
    (Returned /\ call.gen = "buildPattern") =>
        LET n == PatternNumPoints(call)
            points == getPattern(call.file, n, call.StartPos, call.Spacing)
            records == [i \in 1..(2 * n) |->
                           IF i % 2 = 1 THEN points[(i + 1) \div 2].X
                           ELSE points[i \div 2].Y]
            twin == [call EXCEPT !.gen = "buildTarget", !.NumPoints = n,
                                 !.file = records]
            target == Run(createProtocol, buildTargetCalls(twin))
        IN  /\ getCoords(records, n) = points
            /\ TargetTiming(twin) = loc
            /\ CmdList(target) = emitted
            /\ ProtToString(target) = text

\* C25's case: a rotated pattern of two points with an iteration loop
C25_Witness ==
    /\ Returned
    /\ call.gen = "buildPattern"
    /\ PatternNumPoints(call) = 2
    /\ call.Iterations = 2
    /\ call.NumPulses = 2
    /\ call.RotAngle # 0
    /\ call.Trig = T_OUT
    /\ Len(emitted) > 10

(***************************************************************************)
(* The trigger commands                                                    *)
(***************************************************************************)
\* C26: at every trigger emission point, at its cycle t, trigger mode None
\* appends no command, TriggerIn appends exactly one 'U' command at cycle t on
\* channel 7 with value 0, and TriggerOut appends exactly two 'V' commands on
\* channel 7: value 2 at cycle t, followed by value 0 at cycle t + TRIG_LEN
\* (cycles are uint32_t).
\* buildTarget and buildPattern have one emission point per point, at the
\* cycle of the point's moves; the other generators have one, at the cycle of
\* the master loop Start (buildSpot) or TIME_OFFSET cycles after it.
C26_TriggerCommands ==
    Returned =>
        LET n == Len(emitted)
            IsIn(c) == c.ScanCmd \in {"U", "D"}
            IsHigh(c) == c.ScanCmd = "V" /\ c.Channel = TRIG /\ c.Value = TH_DL
            IsMoveX(c) == c.ScanCmd = "V" /\ c.Channel = X
            perPoint == call.gen \in {"buildTarget", "buildPattern"}
            points == IF perPoint THEN Len(SelectSeq(emitted, IsMoveX)) ELSE 1
            ins == SelectSeq(emitted, IsIn)
            highs == SelectSeq(emitted, IsHigh)
            moves == SelectSeq(emitted, IsMoveX)
            t(k) == IF perPoint THEN moves[k].Cycle
                    ELSE IF call.gen = "buildSpot" THEN emitted[3].Cycle
                    ELSE U32Add(emitted[1].Cycle, ToU32(TIME_OFFSET))
        IN  /\ Len(ins) = (IF call.Trig = T_IN THEN points ELSE 0)
            /\ Len(highs) = (IF call.Trig = T_OUT THEN points ELSE 0)
            /\ \A k \in 1..Len(ins) :
                  /\ ins[k].ScanCmd = "U"
                  /\ ins[k].Channel = TRIG
                  /\ ins[k].Value = 0
                  /\ ins[k].Cycle = t(k)
            /\ \A k \in 1..Len(highs) : highs[k].Cycle = t(k)
            /\ \A i \in 1..n :
                  IsHigh(emitted[i]) =>
                      /\ i < n
                      /\ emitted[i + 1].ScanCmd = "V"
                      /\ emitted[i + 1].Channel = TRIG
                      /\ emitted[i + 1].Value = TL_DL
                      /\ emitted[i + 1].Cycle = U32Add(emitted[i].Cycle, ToU32(TRIG_LEN))

\* C26's case: buildTarget over two points with trigger-out: two trigger
\* pulses, the first raised at cycle 10 and dropped at cycle 20
C26_Witness ==
    /\ Returned
    /\ call.gen = "buildTarget"
    /\ call.Trig = T_OUT
    /\ call.NumPoints = 2
    /\ \E i \in 1..(Len(emitted) - 1) :
          /\ emitted[i].ScanCmd = "V" /\ emitted[i].Channel = TRIG
          /\ emitted[i].Value = TH_DL /\ emitted[i].Cycle = ToU32(TIME_OFFSET)
          /\ emitted[i + 1].Value = TL_DL
          /\ emitted[i + 1].Cycle = ToU32(TIME_OFFSET + TRIG_LEN)
    /\ \E i, j \in 1..Len(emitted) :
          i < j /\ emitted[i].Value = TH_DL /\ emitted[j].Value = TH_DL
               /\ emitted[i].Channel = TRIG /\ emitted[j].Channel = TRIG

\* C27: buildRapidGrid and buildRapidTarget emit the trigger commands of the
\* trigger mode exactly once per protocol, inside the master loop and before
\* the first pulse-on command, whatever the number of grid points or targets;
\* buildTarget and buildPattern emit them once per target point, between the
\* moves to the point and its pulse-on command.
C27_TriggerPlacement ==
    (/\ Returned
     /\ call.gen \in {"buildRapidGrid", "buildRapidTarget", "buildTarget", "buildPattern"}) =>
        LET n == Len(emitted)
            IsTrigger(c) == \/ c.ScanCmd \in {"U", "D"}
                            \/ c.ScanCmd = "V" /\ c.Channel = TRIG /\ c.Value = TH_DL
            IsMoveX(c) == c.ScanCmd = "V" /\ c.Channel = X
            IsMark(c) == IsMoveX(c) \/ IsTrigger(c) \/ IsPulseOn(c)
            marks == SelectSeq(emitted, IsMark)
            triggers == Len(SelectSeq(emitted, IsTrigger))
            points == IF call.gen = "buildTarget" THEN call.NumPoints
                      ELSE PatternNumPoints(call)
        IN  IF call.gen \in {"buildRapidGrid", "buildRapidTarget"}
            THEN /\ triggers = (IF call.Trig = T_NONE THEN 0 ELSE 1)
                 /\ \A i \in 1..n :
                       IsTrigger(emitted[i]) =>
                           /\ IsStart(emitted[1]) /\ emitted[1].Value = call.Reps
                           /\ IsEnd(emitted[n]) /\ emitted[n].Value = call.Reps
                           /\ 1 < i /\ i < n
                           /\ \A j \in 1..n : IsPulseOn(emitted[j]) => i < j
            ELSE IF call.Trig = T_NONE
            THEN /\ triggers = 0
                 /\ Len(marks) = 2 * points
                 /\ \A k \in 1..points :
                       IsMoveX(marks[2 * k - 1]) /\ IsPulseOn(marks[2 * k])
            ELSE /\ triggers = points
                 /\ Len(marks) = 3 * points
                 /\ \A k \in 1..points :
                       /\ IsMoveX(marks[3 * k - 2])
                       /\ IsTrigger(marks[3 * k - 1])
                       /\ IsPulseOn(marks[3 * k])

\* C27's case: buildRapidTarget over two targets with trigger-in: one 'U'
\* command, two pulse-on commands after it
C27_Witness ==
    /\ Returned
    /\ call.gen = "buildRapidTarget"
    /\ call.NumPoints = 2
    /\ call.Trig = T_IN
    /\ emitted[2].ScanCmd = "U"
    /\ Len(SelectSeq(emitted, IsPulseOn)) = 2

(***************************************************************************)
(* buildRapidGrid against buildGrid                                        *)
(***************************************************************************)
\* C28: for the same Dims, StartPos, Spacing, ScaleFactor and CenterOffset at
\* rotation 0, buildRapidGrid walks the raster of buildGrid: the relative-move
\* values on channel X and channel Y (the X step, the row step and the X
\* return at the end of a row) are equal in both generators, and in both the
\* net X displacement over one complete row of Dims.X steps is zero.
C28_RapidGridAsGrid ==
    (Returned /\ call.gen = "buildRapidGrid" /\ call.RotAngle = 0) =>
        LET IsRel(c) == c.fn = "appendRel"
            rapid == SelectSeq(calls, IsRel)
            grid == SelectSeq(buildGridCalls([call EXCEPT !.gen = "buildGrid"]), IsRel)
            NetX(r) == r[1].val * call.Dims.X + r[3].val
        IN  /\ Len(rapid) = 3
            /\ Len(grid) = 3
            /\ \A k \in 1..3 :
                  rapid[k].ch = grid[k].ch /\ rapid[k].val = grid[k].val
            /\ rapid[1].ch = X /\ rapid[2].ch = Y /\ rapid[3].ch = X
            /\ NetX(rapid) = 0
            /\ NetX(grid) = 0

====
